---- MODULE Spec2Model ----
(***************************************************************************)
(* ConsumeNice prototypes: the product search client (get_data), the       *)
(* prompt assembler / summary generator (LLM, generate_summary) and the    *)
(* presentation variants (app.py, app2.py, app3.py, main.py, src/main.py,  *)
(* gr2.py, sl.py).                                                         *)
(*                                                                         *)
(* A Python dict is a function whose DOMAIN is the set of keys present.    *)
(* A prompt is the sequence of the pieces of its f-string: the literal     *)
(* pieces and, for each interpolation, the value interpolated, tagged with *)
(* the local variable it comes from.                                       *)
(***************************************************************************)
EXTENDS Integers, Sequences, FiniteSets, TLC

VARIABLES search, assembled, extracted, app, session, gr_names_state, last,
          shown, paired, running

vars ==
    <<search, assembled, extracted, app, session, gr_names_state, last, shown, paired,
      running>>

-----------------------------------------------------------------------------
(* Bounds *)

\* longest 'products' list the external search API answers with
MaxResp == 6

\* number of keys of a product record that are absent or hold an empty value
MaxDeviations == 2

\* longest 'products' list the search API answers with in the handler model
MaxList == 2

-----------------------------------------------------------------------------
(* Python values and dicts *)

\* the falsy values a field can hold ('' , [] , None render differently but
\* all fail the `x if x else filler` test); one representative
EmptyVal == ""

NotMentioned == "Not mentioned"

Truthy(v) == v /= EmptyVal

\* dict.get(key, default)
Get(d, k, default) == IF k \in DOMAIN d THEN d[k] ELSE default

\* s[:n + 1]
Take_OffByOne(s, n) == SubSeq(s, 1, IF Len(s) < n + 1 THEN Len(s) ELSE n + 1)

\* s[:n]
Take(s, n) == SubSeq(s, 1, IF Len(s) < n THEN Len(s) ELSE n)

\* the list unfiltered
FilterNamed_None(s) == s

\* [p for p in s if 'product_name' in p]
RECURSIVE FilterNamed(_)
FilterNamed(s) ==
    IF s = <<>> THEN <<>>
    ELSE IF "product_name" \in DOMAIN Head(s)
         THEN <<Head(s)>> \o FilterNamed(Tail(s))
         ELSE FilterNamed(Tail(s))

-----------------------------------------------------------------------------
(* Product records of the external product database *)

ApiKeys == {"product_name", "brands", "nutriscore_grade", "ecoscore_grade",
            "packaging", "ingredients_text", "nutrients_data", "nutriments",
            "image_url", "url", "_id", "vitamins_tags", "_keywords",
            "nova_groups_tags"}

SampleValue ==
    [k \in ApiKeys |->
        CASE k = "product_name"     -> "Aloo Bhujia"
          [] k = "brands"           -> "Haldiram"
          [] k = "nutriscore_grade" -> "d"
          [] k = "ecoscore_grade"   -> "c"
          [] k = "packaging"        -> "plastic"
          [] k = "ingredients_text" -> "gram flour, potato"
          [] k = "nutrients_data"   -> "fat 40g"
          [] k = "nutriments"       -> "energy 2400kJ"
          [] k = "image_url"        -> "img"
          [] k = "url"              -> "web"
          [] k = "_id"              -> "890"
          [] k = "vitamins_tags"    -> "en:vitamin-c"
          [] k = "_keywords"        -> "snack"
          [] k = "nova_groups_tags" -> "en:4-ultra-processed"]

\* the record with the keys `absent` missing and the keys `empty` falsy
MkRecord(absent, empty) ==
    [k \in ApiKeys \ absent |-> IF k \in empty THEN EmptyVal ELSE SampleValue[k]]

\* the keys the prompt templates render
PromptKeys == {"product_name", "brands", "nutriscore_grade", "ecoscore_grade",
               "packaging", "ingredients_text", "nutrients_data", "nutriments",
               "vitamins_tags", "_keywords", "nova_groups_tags"}

\* records that differ from the fully populated one in at most MaxDeviations
\* of these keys
Deviations == {D \in SUBSET PromptKeys : Cardinality(D) <= MaxDeviations}

ProductRecords ==
    UNION {{MkRecord(D \ E, E) : E \in SUBSET D} : D \in Deviations}

\* the records the search lists are made of: a complete one, one without a
\* name, one with the name and brand of the first and another identifier
RecFull   == MkRecord({}, {})
RecNoName == [MkRecord({"product_name"}, {}) EXCEPT !["_id"] = "891"]
RecTwin   == [MkRecord({}, {}) EXCEPT !["_id"] = "892"]

Catalogue == {RecFull, RecNoName, RecTwin}

\* the lists of exactly n records of S
RECURSIVE ListsOfLen(_, _)
ListsOfLen(S, n) ==
    IF n = 0 THEN {<<>>}
    ELSE {Append(l, x) : l \in ListsOfLen(S, n - 1), x \in S}

\* the lists of at most n records of S
ListsUpTo(S, n) == UNION {ListsOfLen(S, k) : k \in 0..n}

-----------------------------------------------------------------------------
(* Responses of the external search API, as requests.get sees them *)

\* transport: FALSE when requests.get raises a RequestException
\* json:      FALSE when response.json() raises (a ValueError)
\* hasProducts: whether the JSON object has the key 'products'
MkResponse(transport, status, json, hasProducts, products) ==
    [transport |-> transport, status |-> status, json |-> json,
     hasProducts |-> hasProducts, products |-> products]

ResponsesOver(lists) ==
       {MkResponse(FALSE, 0, FALSE, FALSE, <<>>)}
  \cup {MkResponse(TRUE, st, FALSE, FALSE, <<>>) : st \in {200, 500}}
  \cup {MkResponse(TRUE, st, TRUE, FALSE, <<>>) : st \in {200, 500}}
  \cup {MkResponse(TRUE, st, TRUE, TRUE, l) : st \in {200, 500}, l \in lists}

Responses == ResponsesOver(ListsUpTo(Catalogue, MaxResp))

\* what a call returns: a list, an exception, or a flask Response object
ReturnList(l)   == [kind |-> "list", value |-> l]
Raise           == [kind |-> "raise", value |-> <<>>]
ReturnErrorResponse == [kind |-> "response", value |-> <<>>]

-----------------------------------------------------------------------------
(* Product Search Client: get_data, one definition per variant *)

\* "top 5 results"
TopN == 5

\* app2.py: errors are caught and answered with jsonify({"error": ...}),
\* a flask Response object, not a list
get_data_app2(r) ==
    IF ~r.transport THEN ReturnErrorResponse
    ELSE IF r.status /= 200 THEN ReturnErrorResponse
    ELSE IF ~r.json THEN ReturnErrorResponse
    ELSE ReturnList(Take(IF r.hasProducts THEN r.products ELSE <<>>, TopN))

\* main.py: nothing is caught; data['products'] is a KeyError without the key
get_data_main(r) ==
    IF ~r.transport THEN Raise
    ELSE IF ~r.json THEN Raise
    ELSE IF ~r.hasProducts THEN Raise
    ELSE ReturnList(Take(r.products, TopN))

\* src/main.py, OpenFoodFacts.get_data: as main.py, with the country filter
\* in the request parameters
get_data_OFF(r) ==
    IF ~r.transport THEN Raise
    ELSE IF ~r.json THEN Raise
    ELSE IF ~r.hasProducts THEN Raise
    ELSE ReturnList(Take(r.products, TopN))

\* app3.py with the truncation before the name filter
get_data_app3_TruncateFirst(r) ==
    IF ~r.transport THEN Raise
    ELSE IF ~r.json THEN Raise
    ELSE IF ~r.hasProducts \/ Len(r.products) = 0 THEN ReturnList(<<>>)
    ELSE ReturnList(FilterNamed(Take(r.products, TopN)))

\* app3.py: [] without products, else the named records, truncated
get_data_app3(r) ==
    IF ~r.transport THEN Raise
    ELSE IF ~r.json THEN Raise
    ELSE IF ~r.hasProducts \/ Len(r.products) = 0 THEN ReturnList(<<>>)
    ELSE ReturnList(Take(FilterNamed(r.products), TopN))

\* gr2.py
get_data_gr2(r) ==
    IF ~r.transport THEN Raise
    ELSE IF ~r.json THEN Raise
    ELSE IF ~r.hasProducts \/ Len(r.products) = 0 THEN ReturnList(<<>>)
    ELSE ReturnList(Take(FilterNamed(r.products), TopN))

\* sl.py
get_data_sl(r) ==
    IF ~r.transport THEN Raise
    ELSE IF ~r.json THEN Raise
    ELSE IF ~r.hasProducts \/ Len(r.products) = 0 THEN ReturnList(<<>>)
    ELSE ReturnList(Take(FilterNamed(r.products), TopN))

-----------------------------------------------------------------------------
(* Prompt Assembler: the f-strings of LLM / generate_summary.               *)
(* Lit is a literal piece of the template, Item the heading of a numbered  *)
(* line, Val the rendering of an interpolated value, tagged with the dict  *)
(* key it was read from.  Indentation and line breaks are left out.        *)

Lit(t)    == [kind |-> "lit", text |-> t]
Item(t)   == [kind |-> "item", text |-> t]
Val(k, v) == [kind |-> k, text |-> v]

\* the simple template without its second section
SimpleTemplate_NoNegatives(kn, name, kb, brand, ke, eco_score, kg, nutriscore_grade) ==
    << Lit("The product name is "), Val(kn, name),
       Lit(", brand is "), Val(kb, brand),
       Lit(", and its eco-score is "), Val(ke, eco_score),
       Lit(", nutriscore grade is "), Val(kg, nutriscore_grade), Lit("."),
       Lit("Provide a simple analysis including:"),
       Lit("1. "), Item("Positive aspects"), Lit("."),
       Lit("2. "), Item("Health impact"), Lit("."),
       Lit("3. "), Item("Environmental impact"), Lit(".") >>

\* the `if tone == 'simple'` template of app2.py, main.py, src/main.py, app3.py
SimpleTemplate(kn, name, kb, brand, ke, eco_score, kg, nutriscore_grade) ==
    << Lit("The product name is "), Val(kn, name),
       Lit(", brand is "), Val(kb, brand),
       Lit(", and its eco-score is "), Val(ke, eco_score),
       Lit(", nutriscore grade is "), Val(kg, nutriscore_grade), Lit("."),
       Lit("Provide a simple analysis including:"),
       Lit("1. "), Item("Positive aspects"), Lit("."),
       Lit("2. "), Item("Negative aspects"), Lit("."),
       Lit("3. "), Item("Health impact"), Lit("."),
       Lit("4. "), Item("Environmental impact"), Lit(".") >>

\* the deeper template without its fourth section
DeeperTemplate_NoEnvironment(name, brand, eco_score, nutriscore_grade) ==
    << Lit("The product name is "), Val("product_name", name),
       Lit(", brand is "), Val("brands", brand),
       Lit(", and its eco-score is "), Val("ecoscore_grade", eco_score),
       Lit(", nutriscore grade is "), Val("nutriscore_grade", nutriscore_grade), Lit("."),
       Lit("Provide a deeper analysis including:"),
       Lit("1. "), Item("Positive aspects"), Lit("."),
       Lit("2. "), Item("Negative aspects"), Lit("."),
       Lit("3. "), Item("Health impact"), Lit(" (positive and negative)."),
       Lit("4. "), Item("Include relevant health articles if available"), Lit(".") >>

\* the `else` template of app2.py and main.py
DeeperTemplate(name, brand, eco_score, nutriscore_grade) ==
    << Lit("The product name is "), Val("product_name", name),
       Lit(", brand is "), Val("brands", brand),
       Lit(", and its eco-score is "), Val("ecoscore_grade", eco_score),
       Lit(", nutriscore grade is "), Val("nutriscore_grade", nutriscore_grade), Lit("."),
       Lit("Provide a deeper analysis including:"),
       Lit("1. "), Item("Positive aspects"), Lit("."),
       Lit("2. "), Item("Negative aspects"), Lit("."),
       Lit("3. "), Item("Health impact"), Lit(" (positive and negative)."),
       Lit("4. "), Item("Environmental impact"), Lit(" (packaging and ingredients)."),
       Lit("5. "), Item("Include relevant health articles if available"), Lit(".") >>

\* {x if x else 'filler'}
OrFiller(x, filler) == IF Truthy(x) THEN x ELSE filler

FillerEco   == "This product's EcoScore is currently not specified, but its sustainability may vary based on its packaging and ingredients."
FillerNutri == "The NutriScore for this product is not available at the moment, but it is crucial for evaluating health impacts."
FillerNova  == "While the NovaScore isn't specified, it's essential to consider how processed a product is when evaluating its healthiness."
FillerIngredients == "This product contains a blend of ingredients typical for carbonated beverages."
FillerNutrients   == "Nutritional information is valuable for understanding the health implications of this beverage."
FillerPackaging   == "The packaging can significantly influence the product's environmental footprint."
FillerVitamins    == "Vitamins play an essential role in health, and their presence can affect overall wellbeing."
FillerKeywords    == "Relevant keywords can highlight important features of the product."

\* the `else` template of src/main.py and app3.py; intro, closing and the
\* keys of name, brand and ingredients differ between the two
InDepthTemplate(intro, closing, kn, name, kb, brand, eco_score, nutriscore_grade, nova, ki, ingredients, nutrients, packaging, vitamins, keywords) ==
    << Lit(intro),
       Lit("- Name: "), Val(kn, name),
       Lit("- Brand: "), Val(kb, brand),
       Lit("- EcoScore: "), Val("ecoscore_grade", OrFiller(eco_score, FillerEco)),
       Lit("- NutriScore: "), Val("nutriscore_grade", OrFiller(nutriscore_grade, FillerNutri)),
       Lit("- NovaScore: "), Val("nova_groups_tags", OrFiller(nova, FillerNova)),
       Lit("- Ingredients: "), Val(ki, OrFiller(ingredients, FillerIngredients)),
       Lit("- Nutrients: "), Val("nutrients_data", OrFiller(nutrients, FillerNutrients)),
       Lit("- Packaging: "), Val("packaging", OrFiller(packaging, FillerPackaging)),
       Lit("- Vitamins: "), Val("vitamins_tags", OrFiller(vitamins, FillerVitamins)),
       Lit("- Keywords: "), Val("_keywords", OrFiller(keywords, FillerKeywords)),
       Lit("Please summarize the NutriScore, NovaScore, and EcoScore at the beginning and provide a description of each score as mentioned above. Your task is to provide an in-depth analysis of the product, focusing on:"),
       Lit("1. "), Item("Health impact"),
       Lit(": Explain how the ingredients, nutrients, and vitamins might affect human health."),
       Lit("2. "), Item("Environmental impact"),
       Lit(": Assess the sustainability and environmental friendliness of the product, particularly its packaging."),
       Lit(closing) >>

\* the single template of gr2.py and sl.py: the tone is interpolated
ToneTemplate(name, brand, eco_score, nutriscore_grade, nova, ingredients, nutrients, packaging, tone) ==
    << Lit("You are an AI assistant analyzing consumer products. Here are the details:"),
       Lit("- Name: "), Val("product_name", name),
       Lit("- Brand: "), Val("brands", brand),
       Lit("- EcoScore: "), Val("ecoscore_grade", eco_score),
       Lit("- NutriScore: "), Val("nutriscore_grade", nutriscore_grade),
       Lit("- NovaScore: "), Val("nova_groups_tags", nova),
       Lit("- Ingredients: "), Val("ingredients_text", ingredients),
       Lit("- Nutrients: "), Val("nutriments", nutrients),
       Lit("- Packaging: "), Val("packaging", packaging),
       Lit("Please provide a "), Val("tone", tone), Lit(" analysis including:"),
       Lit("1. "), Item("Positive aspects"), Lit(" of the product."),
       Lit("2. "), Item("Negative aspects"), Lit(" of the product."),
       Lit("3. "), Item("Health impact"), Lit("."),
       Lit("4. "), Item("Environmental impact"), Lit(".") >>

\* app2.py LLM keeping the prompts of earlier calls in front of the new one
LLM_app2_WithHistory(product, tone) ==
    LET name == Get(product, "product_name", NotMentioned)
        brand == Get(product, "brands", NotMentioned)
        nutriscore_grade == Get(product, "nutriscore_grade", NotMentioned)
        eco_score == Get(product, "ecoscore_grade", NotMentioned)
        history == IF assembled = <<>> THEN <<>> ELSE assembled[Len(assembled)].prompt
    IN  history \o
        (IF tone = "simple"
         THEN SimpleTemplate("product_name", name, "brands", brand,
                             "ecoscore_grade", eco_score, "nutriscore_grade", nutriscore_grade)
         ELSE DeeperTemplate(name, brand, eco_score, nutriscore_grade))

\* app2.py LLM: the prompt handed to generate_content
LLM_app2(product, tone) ==
    LET name == Get(product, "product_name", NotMentioned)
        brand == Get(product, "brands", NotMentioned)
        nutriscore_grade == Get(product, "nutriscore_grade", NotMentioned)
        eco_score == Get(product, "ecoscore_grade", NotMentioned)
    IN  IF tone = "simple"
        THEN SimpleTemplate("product_name", name, "brands", brand,
                            "ecoscore_grade", eco_score, "nutriscore_grade", nutriscore_grade)
        ELSE DeeperTemplate(name, brand, eco_score, nutriscore_grade)

\* main.py LLM comparing the tone without regard to case
LLM_main_AnyCase(product, tone) ==
    LET name == Get(product, "product_name", NotMentioned)
        brand == Get(product, "brands", NotMentioned)
        nutriscore_grade == Get(product, "nutriscore_grade", NotMentioned)
        eco_score == Get(product, "ecoscore_grade", NotMentioned)
    IN  IF tone \in {"simple", "Simple"}
        THEN SimpleTemplate("product_name", name, "brands", brand,
                            "ecoscore_grade", eco_score, "nutriscore_grade", nutriscore_grade)
        ELSE DeeperTemplate(name, brand, eco_score, nutriscore_grade)

\* main.py LLM
LLM_main(product, tone) ==
    LET name == Get(product, "product_name", NotMentioned)
        brand == Get(product, "brands", NotMentioned)
        nutriscore_grade == Get(product, "nutriscore_grade", NotMentioned)
        eco_score == Get(product, "ecoscore_grade", NotMentioned)
    IN  IF tone = "simple"
        THEN SimpleTemplate("product_name", name, "brands", brand,
                            "ecoscore_grade", eco_score, "nutriscore_grade", nutriscore_grade)
        ELSE DeeperTemplate(name, brand, eco_score, nutriscore_grade)

IntroOFF   == "You are an AI assistant analyzing consumer products. Here are the details:"
ClosingOFF == "Ensure your response is informative and clear, helping users make conscious decisions about their health and the environment. Do not explicitly mention if any data is unknown or unavailable; instead, provide context or general information when specific data points are missing."

\* src/main.py OpenFoodFacts.LLM
LLM_OFF(product, tone) ==
    LET name == Get(product, "product_name", NotMentioned)
        brand == Get(product, "brands", NotMentioned)
        nutriscore_grade == Get(product, "nutriscore_grade", NotMentioned)
        eco_score == Get(product, "ecoscore_grade", NotMentioned)
        packaging == Get(product, "packaging", NotMentioned)
        ingredients == Get(product, "ingredients_text", NotMentioned)
        nutrients == Get(product, "nutrients_data", NotMentioned)
        vitamins == Get(product, "vitamins_tags", NotMentioned)
        keywords == Get(product, "_keywords", NotMentioned)
        nova == Get(product, "nova_groups_tags", NotMentioned)
    IN  IF tone = "simple"
        THEN SimpleTemplate("product_name", name, "brands", brand,
                            "ecoscore_grade", eco_score, "nutriscore_grade", nutriscore_grade)
        ELSE InDepthTemplate(IntroOFF, ClosingOFF, "product_name", name, "brands", brand,
                             eco_score, nutriscore_grade, nova, "ingredients_text",
                             ingredients, nutrients, packaging, vitamins, keywords)

IntroApp3   == "You are an AI assistant analyzing consumer products. Please provide the analysis in plain text without any special formatting, headers, or markdown. Here are the details:"
ClosingApp3 == "Ensure your response is informative and clear, helping users make conscious decisions about their health and the environment. Do not use markdown, bullet points, or bold text; present the information in plain sentences without any formatting. Do not explicitly mention if any data is unknown or unavailable; instead, provide context or general information when specific data points are missing."

\* app3.py generate_summary: `data` is the request body, the record is
\* data['product'] and is read with the keys below
generate_summary_app3(data, tone) ==
    LET product == data["product"]
        name == Get(product, "name", NotMentioned)
        brand == Get(product, "brands", NotMentioned)
        nutriscore_grade == Get(product, "nutriscore_grade", NotMentioned)
        eco_score == Get(product, "ecoscore_grade", NotMentioned)
        packaging == Get(product, "packaging", NotMentioned)
        ingredients == Get(product, "ingredients", NotMentioned)
        nutrients == Get(product, "nutrients_data", NotMentioned)
        vitamins == Get(product, "vitamins_tags", NotMentioned)
        keywords == Get(product, "_keywords", NotMentioned)
        nova == Get(product, "nova_groups_tags", NotMentioned)
    IN  IF tone = "simple"
        THEN SimpleTemplate("name", name, "brands", brand,
                            "ecoscore_grade", eco_score, "nutriscore_grade", nutriscore_grade)
        ELSE InDepthTemplate(IntroApp3, ClosingApp3, "name", name, "brands", brand,
                             eco_score, nutriscore_grade, nova, "ingredients",
                             ingredients, nutrients, packaging, vitamins, keywords)

\* gr2.py generate_summary
generate_summary_gr2(product, tone) ==
    ToneTemplate(Get(product, "product_name", NotMentioned),
                 Get(product, "brands", NotMentioned),
                 Get(product, "ecoscore_grade", NotMentioned),
                 Get(product, "nutriscore_grade", NotMentioned),
                 Get(product, "nova_groups_tags", NotMentioned),
                 Get(product, "ingredients_text", NotMentioned),
                 Get(product, "nutriments", NotMentioned),
                 Get(product, "packaging", NotMentioned),
                 tone)

\* sl.py generate_summary
generate_summary_sl(product, tone) ==
    ToneTemplate(Get(product, "product_name", NotMentioned),
                 Get(product, "brands", NotMentioned),
                 Get(product, "ecoscore_grade", NotMentioned),
                 Get(product, "nutriscore_grade", NotMentioned),
                 Get(product, "nova_groups_tags", NotMentioned),
                 Get(product, "ingredients_text", NotMentioned),
                 Get(product, "nutriments", NotMentioned),
                 Get(product, "packaging", NotMentioned),
                 tone)

\* the assembler of a variant
Assemble(variant, product, tone) ==
    CASE variant = "app2" -> LLM_app2(product, tone)
      [] variant = "main" -> LLM_main(product, tone)
      [] variant = "OFF"  -> LLM_OFF(product, tone)
      [] variant = "app3" -> generate_summary_app3([product |-> product, tone |-> tone], tone)
      [] variant = "gr2"  -> generate_summary_gr2(product, tone)
      [] variant = "sl"   -> generate_summary_sl(product, tone)

-----------------------------------------------------------------------------
(* Initial state *)

NoResponse == MkResponse(FALSE, 0, FALSE, FALSE, <<>>)

\* the programs of the repository; a behaviour is a run of one of them
Apps == {"app2", "main", "OFF", "app3", "gr2", "sl", "app"}

\* browser sessions of app2.py (one signed cookie each)
Sessions == {"s1", "s2"}

\* session.get('products'): None until get_products stored a list
NoProducts == [has |-> FALSE, products |-> <<>>]
Stored(l)  == [has |-> TRUE, products |-> l]

\* what the last request did: the handler, its inputs, the list it worked
\* on, the record and tone handed to the prompt assembler, the prompt, the
\* outbound calls in order, and the answer
NoRequest ==
    [op |-> "none", sid |-> "", idx |-> 0, hasResults |-> FALSE, results |-> <<>>,
     called |-> FALSE, tone |-> "", selected |-> <<>>, prompt |-> <<>>,
     calls |-> <<>>, gen |-> "none", outcome |-> "none", status |-> 0,
     error |-> "", entries |-> <<>>, posted |-> <<>>, body |-> ""]

\* browser tabs of one user of app2.py: they share the cookie of session "s1"
Tabs == {"t1", "t2"}

\* nothing extracted yet from a record by a list builder or an assembler
NoExtract ==
    [variant |-> "none", product |-> <<>>, entry |-> <<>>, handed |-> <<>>, tone |-> "",
     prompt |-> <<>>]

\* what each tab displays, and the tab the last request came from
NoTabs == [view |-> [t \in Tabs |-> NoProducts], tab |-> ""]

\* app2.py and main.py driven side by side by the same user actions
NoPair ==
    [stage |-> "start", first |-> NoResponse, second |-> NoResponse,
     listed2 |-> NoRequest, listedM |-> NoRequest,
     app2 |-> NoRequest, main |-> NoRequest]

\* the requests in progress: one per client (a browser, a terminal)
Clients == {"c1", "c2"}

\* no operation of the client is in progress
Idle ==
    [op |-> "none", at |-> "idle", idx |-> 0, found |-> 0, calls |-> <<>>,
     outcome |-> "none"]

InitState(a) ==
    /\ search = [variant |-> "none", response |-> NoResponse, outcome |-> Raise]
    /\ assembled = <<>>
    /\ extracted = NoExtract
    /\ shown = NoTabs
    /\ paired = NoPair
    /\ running = [c \in Clients |-> Idle]
    /\ app = a
    /\ session = [s \in Sessions |-> NoProducts]
    /\ gr_names_state = <<>>
    /\ last = NoRequest

\* one of the programs is started
Init == \E a \in Apps : InitState(a)

\* no program is started: get_data or the assembler is called on its own
InitPure == InitState("none")

-----------------------------------------------------------------------------
(* The search client applied once to any response of the external API *)

SearchApp2 ==
    /\ search.variant = "none"
    /\ \E r \in Responses :
        /\ search' = [variant |-> "app2", response |-> r, outcome |-> get_data_app2(r)]
        /\ UNCHANGED <<running, assembled, extracted, shown, paired, app, session, gr_names_state, last>>

SearchApp3 ==
    /\ search.variant = "none"
    /\ \E r \in Responses :
        /\ search' = [variant |-> "app3", response |-> r, outcome |-> get_data_app3(r)]
        /\ UNCHANGED <<running, assembled, extracted, shown, paired, app, session, gr_names_state, last>>

SearchMain ==
    /\ search.variant = "none"
    /\ \E r \in Responses :
        /\ search' = [variant |-> "main", response |-> r, outcome |-> get_data_main(r)]
        /\ UNCHANGED <<running, assembled, extracted, shown, paired, app, session, gr_names_state, last>>

SearchOFF ==
    /\ search.variant = "none"
    /\ \E r \in Responses :
        /\ search' = [variant |-> "OFF", response |-> r, outcome |-> get_data_OFF(r)]
        /\ UNCHANGED <<running, assembled, extracted, shown, paired, app, session, gr_names_state, last>>

SearchGr2 ==
    /\ search.variant = "none"
    /\ \E r \in Responses :
        /\ search' = [variant |-> "gr2", response |-> r, outcome |-> get_data_gr2(r)]
        /\ UNCHANGED <<running, assembled, extracted, shown, paired, app, session, gr_names_state, last>>

SearchSl ==
    /\ search.variant = "none"
    /\ \E r \in Responses :
        /\ search' = [variant |-> "sl", response |-> r, outcome |-> get_data_sl(r)]
        /\ UNCHANGED <<running, assembled, extracted, shown, paired, app, session, gr_names_state, last>>

NextSearch ==
    \/ SearchApp2
    \/ SearchApp3
    \/ SearchMain
    \/ SearchOFF
    \/ SearchGr2
    \/ SearchSl

SpecSearch == InitPure /\ [][NextSearch]_vars

Searched == search.variant /= "none"

\* the response is an error or holds no products
ErrorOrEmptyResponse(r) ==
    \/ ~r.transport
    \/ r.status /= 200
    \/ ~r.json
    \/ ~r.hasProducts
    \/ r.products = <<>>

AllNamed(l) == \A i \in 1..Len(l) : "product_name" \in DOMAIN l[i]

\* C1: an empty or error response of the search API makes get_data return
\* the empty list, in every variant (no exception, no non-list value).
C1_ErrorYieldsEmptyList ==
    (Searched /\ ErrorOrEmptyResponse(search.response))
        => search.outcome = ReturnList(<<>>)

\* C2: every get_data that returns a list returns at most 5 records.
C2_AtMostFive ==
    (Searched /\ search.outcome.kind = "list") => Len(search.outcome.value) <= 5

C2_Witness ==
    /\ Searched
    /\ search.outcome.kind = "list"
    /\ Len(search.response.products) > 5
    /\ Len(search.outcome.value) = 5

\* C3 as stated: every record returned by get_data, in every variant, has
\* the product-name field.
C3_EveryVariantNamed ==
    (Searched /\ search.outcome.kind = "list") => AllNamed(search.outcome.value)

NameFilteringVariants == {"app3", "gr2", "sl"}

\* C3 amended: in the variants that filter on the name field (app3.py,
\* gr2.py, sl.py) every record returned by get_data has the product-name
\* field.
C3_FilteringVariantsNamed ==
    (Searched /\ search.variant \in NameFilteringVariants
              /\ search.outcome.kind = "list")
        => AllNamed(search.outcome.value)

C3_Witness ==
    /\ Searched
    /\ search.variant \in NameFilteringVariants
    /\ search.outcome.kind = "list"
    /\ search.outcome.value /= <<>>
    /\ ~AllNamed(search.response.products)

-----------------------------------------------------------------------------
(* The prompt assembler applied to any record and tone, then to another    *)
(* record, then to the first inputs again                                  *)

PyNone == "None"

\* app3.py get_products: the entry of the JSON list for one record
product_info_app3(product) ==
    [name |-> Get(product, "product_name", NotMentioned),
     brand |-> Get(product, "brands", NotMentioned),
     nutriscore_grade |-> Get(product, "nutriscore_grade", NotMentioned),
     eco_score |-> Get(product, "ecoscore_grade", NotMentioned),
     packaging |-> Get(product, "packaging", NotMentioned),
     ingredients |-> Get(product, "ingredients_text", NotMentioned),
     nutrients |-> Get(product, "nutrients_data", NotMentioned),
     image_url |-> Get(product, "image_url", NotMentioned),
     web_url |-> Get(product, "url", NotMentioned),
     barcode |-> Get(product, "_id", PyNone),
     vitamins |-> Get(product, "vitamins_tags", NotMentioned),
     keywords |-> Get(product, "_keywords", NotMentioned),
     nova |-> Get(product, "nova_groups_tags", NotMentioned)]

\* tone values: the two of the widgets and command line, the lowered
\* "In-depth" of sl.py, and two of the strings a client can put in a URL
Tones == {"simple", "deeper", "in-depth", "Simple", ""}

Assembly(variant, product, tone) ==
    [variant |-> variant, product |-> product, tone |-> tone,
     prompt |-> Assemble(variant, product, tone)]

AssembleApp2 ==
    /\ assembled = <<>>
    /\ \E product \in ProductRecords, tone \in Tones :
        /\ assembled' = <<Assembly("app2", product, tone)>>
        /\ UNCHANGED <<running, search, extracted, shown, paired, app, session, gr_names_state, last>>

AssembleMain ==
    /\ assembled = <<>>
    /\ \E product \in ProductRecords, tone \in Tones :
        /\ assembled' = <<Assembly("main", product, tone)>>
        /\ UNCHANGED <<running, search, extracted, shown, paired, app, session, gr_names_state, last>>

AssembleOFF ==
    /\ assembled = <<>>
    /\ \E product \in ProductRecords, tone \in Tones :
        /\ assembled' = <<Assembly("OFF", product, tone)>>
        /\ UNCHANGED <<running, search, extracted, shown, paired, app, session, gr_names_state, last>>

\* app3.py is handed what the front end posts: the entry get_products
\* returned for the record, or the record itself
AssembleApp3 ==
    /\ assembled = <<>>
    /\ \E rec \in ProductRecords, tone \in Tones, posted \in {"entry", "record"} :
        /\ LET product == IF posted = "entry" THEN product_info_app3(rec) ELSE rec
           IN  assembled' = <<Assembly("app3", product, tone)>>
        /\ UNCHANGED <<running, search, extracted, shown, paired, app, session, gr_names_state, last>>

AssembleGr2 ==
    /\ assembled = <<>>
    /\ \E product \in ProductRecords, tone \in Tones :
        /\ assembled' = <<Assembly("gr2", product, tone)>>
        /\ UNCHANGED <<running, search, extracted, shown, paired, app, session, gr_names_state, last>>

AssembleSl ==
    /\ assembled = <<>>
    /\ \E product \in ProductRecords, tone \in Tones :
        /\ assembled' = <<Assembly("sl", product, tone)>>
        /\ UNCHANGED <<running, search, extracted, shown, paired, app, session, gr_names_state, last>>

\* a call for another record in between
AssembleOther ==
    /\ Len(assembled) = 1
    /\ assembled' = Append(assembled, Assembly(assembled[1].variant, RecNoName, "deeper"))
    /\ UNCHANGED <<running, search, extracted, shown, paired, app, session, gr_names_state, last>>

\* the first call repeated with the same record and tone
AssembleAgain ==
    /\ Len(assembled) \in {1, 2}
    /\ assembled' = Append(assembled, Assembly(assembled[1].variant, assembled[1].product,
                                               assembled[1].tone))
    /\ UNCHANGED <<running, search, extracted, shown, paired, app, session, gr_names_state, last>>

NextPrompt ==
    \/ AssembleApp2
    \/ AssembleMain
    \/ AssembleOFF
    \/ AssembleApp3
    \/ AssembleGr2
    \/ AssembleSl
    \/ AssembleOther
    \/ AssembleAgain

SpecPrompt == InitPure /\ [][NextPrompt]_vars

\* the prompt holds the literal text t
Contains(prompt, t) == \E j \in 1..Len(prompt) : prompt[j].text = t

\* the prompt asks for the section t as a numbered line
Requests(prompt, t) == \E j \in 1..Len(prompt) : prompt[j] = Item(t)

FourSections == {"Positive aspects", "Negative aspects", "Health impact",
                 "Environmental impact"}

\* the pieces of a prompt that render a key of the record
RenderedKey(piece) == piece.kind \notin {"lit", "item", "tone"}

\* C4: for a field absent from the record, the prompt built with tone
\* "deeper" never shows "Not mentioned" for that field, and the prompt built
\* with tone "simple" does.
C4_AbsentFieldByTone ==
    \A i \in 1..Len(assembled) :
        LET e == assembled[i]
        IN  \A j \in 1..Len(e.prompt) :
                (RenderedKey(e.prompt[j]) /\ e.prompt[j].kind \notin DOMAIN e.product)
                    => /\ e.tone = "deeper" => e.prompt[j].text /= NotMentioned
                       /\ e.tone = "simple" => e.prompt[j].text = NotMentioned

SameInputs(a, b) ==
    a.variant = b.variant /\ a.product = b.product /\ a.tone = b.tone

C6_SimpleFourSections ==
    \A i \in 1..Len(assembled) :
        assembled[i].tone = "simple"
            => /\ Contains(assembled[i].prompt, "Positive aspects")
               /\ Contains(assembled[i].prompt, "Negative aspects")
               /\ \A t \in FourSections : Requests(assembled[i].prompt, t)

C6_Witness ==
    /\ assembled /= <<>>
    /\ assembled[1].tone = "simple"
    /\ assembled[1].variant = "sl"
    /\ Requests(assembled[1].prompt, "Negative aspects")

ToneBranchingVariants == {"app2", "main", "OFF", "app3"}

\* C7 as stated: in every variant that branches on tone the "deeper" prompt
\* asks for the same four sections as the "simple" prompt.
C7_DeeperSameFourSections ==
    \A i \in 1..Len(assembled) :
        (assembled[i].tone = "deeper" /\ assembled[i].variant \in ToneBranchingVariants)
            => \A t \in FourSections : Requests(assembled[i].prompt, t)

\* C7 amended: in every variant that branches on tone the "deeper" prompt
\* asks for the health-impact and environmental-impact sections; it asks for
\* all four sections of the "simple" prompt in app2.py and main.py only.
C7_DeeperSections ==
    \A i \in 1..Len(assembled) :
        (assembled[i].tone = "deeper" /\ assembled[i].variant \in ToneBranchingVariants)
            => /\ Requests(assembled[i].prompt, "Health impact")
               /\ Requests(assembled[i].prompt, "Environmental impact")
               /\ (\A t \in FourSections : Requests(assembled[i].prompt, t))
                      <=> assembled[i].variant \in {"app2", "main"}

C7_Witness ==
    /\ assembled /= <<>>
    /\ assembled[1].tone = "deeper"
    /\ assembled[1].variant = "OFF"
    /\ ~Requests(assembled[1].prompt, "Positive aspects")

-----------------------------------------------------------------------------
(* Presentation variants: one action per request handler *)

\* the records the search lists of the handlers are made of; the variants
\* that select by display label also get the record with a twin label
HandlerCatalogue(a) ==
    IF a \in {"gr2", "sl"} THEN Catalogue ELSE {RecFull, RecNoName}

HandlerResponses(a) == ResponsesOver(ListsUpTo(HandlerCatalogue(a), MaxList))

\* tone values a client can put in the URL or the request body
HttpTones == {"simple", "deeper", "loud"}

\* l[i] of Python: negative indices count from the end
PyIndexValid(l, i) == -Len(l) <= i /\ i < Len(l)
PyIndex(l, i) == IF i >= 0 THEN l[i + 1] ELSE l[Len(l) + i + 1]

\* model.generate_content(prompt) with the retry of a failed call
generate_content_Retry(genOK) ==
    [calls |-> IF genOK THEN <<"generate">> ELSE <<"generate", "generate">>,
     ok |-> genOK]

\* model.generate_content(prompt): one call, an exception when it fails
generate_content(genOK) == [calls |-> <<"generate">>, ok |-> genOK]

Request(op, sid, idx) == [NoRequest EXCEPT !.op = op, !.sid = sid, !.idx = idx]

\* the request after its search call returned the list l
WithResults(req, l) == [req EXCEPT !.hasResults = TRUE, !.results = l]

\* an uncaught exception: the framework answers 500 (or the script stops)
Raised(req) == [req EXCEPT !.outcome = "raise", !.status = 500]

\* the tail of LLM / generate_summary and of its caller: the prompt is
\* assembled, generate_content is called once, its text is returned
Summarised(req, a, product, tone, genOK) ==
    LET g == generate_content(genOK)
    IN  [req EXCEPT !.called = TRUE, !.tone = tone, !.selected = <<product>>,
                    !.prompt = Assemble(a, product, tone),
                    !.calls = req.calls \o g.calls,
                    !.gen = IF genOK THEN "ok" ELSE "fail",
                    !.outcome = IF g.ok THEN "ok" ELSE "raise",
                    !.status = IF g.ok THEN 200 ELSE 500]

\* the entry with the name read as the empty string when it is absent
basic_info_EmptyName(p) ==
    [name |-> Get(p, "product_name", ""),
     brand |-> Get(p, "brands", NotMentioned),
     image_url |-> Get(p, "image_url", ""),
     web_url |-> Get(p, "url", "")]

\* the entry of the JSON list of app2.py and main.py
basic_info(p) ==
    [name |-> Get(p, "product_name", NotMentioned),
     brand |-> Get(p, "brands", NotMentioned),
     image_url |-> Get(p, "image_url", ""),
     web_url |-> Get(p, "url", "")]

\* get_products keeping the list in one module-level variable that every
\* session reads
get_products_app2_Global(sess, sid, r) ==
    LET products == get_data_app2(r)
        req == [Request("get_products", sid, 0) EXCEPT !.calls = <<"search">>]
    IN  IF products.kind = "list"
        THEN [session |-> [s \in Sessions |-> Stored(products.value)],
              last |-> [WithResults(req, products.value) EXCEPT
                           !.outcome = "ok", !.status = 200,
                           !.entries = [i \in 1..Len(products.value) |-> basic_info(products.value[i])]]]
        ELSE [session |-> sess, last |-> Raised(req)]

\* app2.py get_products of the session sid when the search API answers r:
\* the session after the request and the record of the request.  When
\* get_data returned a Response object the list comprehension raises and the
\* session cookie is not written.
get_products_app2(sess, sid, r) ==
    LET products == get_data_app2(r)
        req == [Request("get_products", sid, 0) EXCEPT !.calls = <<"search">>]
    IN  IF products.kind = "list"
        THEN [session |-> [sess EXCEPT ![sid] = Stored(products.value)],
              last |-> [WithResults(req, products.value) EXCEPT
                           !.outcome = "ok", !.status = 200,
                           !.entries = [i \in 1..Len(products.value) |-> basic_info(products.value[i])]]]
        ELSE [session |-> sess, last |-> Raised(req)]

\* app2.py GET /api/products
App2GetProducts ==
    /\ app = "app2"
    /\ \E sid \in Sessions, r \in HandlerResponses("app2") :
        /\ session' = get_products_app2(session, sid, r).session
        /\ last' = get_products_app2(session, sid, r).last
        /\ UNCHANGED <<running, search, assembled, extracted, shown, paired, app,
                       gr_names_state>>

ProductNotFound == "Product not found or invalid product ID."

\* show_summary summarising an empty record when the session holds no list
\* or the index is no position of it
show_summary_app2_DefaultRecord(sess, sid, product_id, tone, genOK) ==
    LET products == sess[sid]
        req == [Request("show_summary", sid, product_id) EXCEPT
                   !.hasResults = products.has, !.results = products.products]
    IN  [session |-> sess,
         last |-> IF ~products.has \/ product_id >= Len(products.products)
                  THEN Summarised(req, "app2", MkRecord(ApiKeys, {}), tone, genOK)
                  ELSE Summarised(req, "app2", products.products[product_id + 1],
                                  tone, genOK)]

\* show_summary dropping the stored list when it answers with the error
\* payload
show_summary_app2_PopOnError(sess, sid, product_id, tone, genOK) ==
    LET products == sess[sid]
        req == [Request("show_summary", sid, product_id) EXCEPT
                   !.hasResults = products.has, !.results = products.products]
    IN  IF ~products.has \/ product_id >= Len(products.products)
        THEN [session |-> [sess EXCEPT ![sid] = NoProducts],
              last |-> [req EXCEPT !.outcome = "error", !.status = 200,
                                   !.error = ProductNotFound]]
        ELSE [session |-> sess,
              last |-> Summarised(req, "app2", products.products[product_id + 1],
                                  tone, genOK)]

\* show_summary summarising the first record of the list whatever the index
show_summary_app2_FirstRecord(sess, sid, product_id, tone, genOK) ==
    LET products == sess[sid]
        req == [Request("show_summary", sid, product_id) EXCEPT
                   !.hasResults = products.has, !.results = products.products]
    IN  [session |-> sess,
         last |-> IF ~products.has \/ product_id >= Len(products.products)
                  THEN [req EXCEPT !.outcome = "error", !.status = 200,
                                   !.error = ProductNotFound]
                  ELSE Summarised(req, "app2", products.products[1], tone, genOK)]

\* show_summary removing the list from the session once it is summarised
show_summary_app2_PopsSession(sess, sid, product_id, tone, genOK) ==
    LET products == sess[sid]
        req == [Request("show_summary", sid, product_id) EXCEPT
                   !.hasResults = products.has, !.results = products.products]
    IN  IF ~products.has \/ product_id >= Len(products.products)
        THEN [session |-> sess,
              last |-> [req EXCEPT !.outcome = "error", !.status = 200,
                                   !.error = ProductNotFound]]
        ELSE [session |-> [sess EXCEPT ![sid] = NoProducts],
              last |-> Summarised(req, "app2", products.products[product_id + 1],
                                  tone, genOK)]

\* show_summary with the bound tested by > : the index len(products) passes
\* the test and products[product_id] raises an IndexError
show_summary_app2_OffByOne(sess, sid, product_id, tone, genOK) ==
    LET products == sess[sid]
        req == [Request("show_summary", sid, product_id) EXCEPT
                   !.hasResults = products.has, !.results = products.products]
    IN  [session |-> sess,
         last |-> IF ~products.has \/ product_id > Len(products.products)
                  THEN [req EXCEPT !.outcome = "error", !.status = 200,
                                   !.error = ProductNotFound]
                  ELSE IF product_id = Len(products.products)
                  THEN Raised(req)
                  ELSE Summarised(req, "app2", products.products[product_id + 1],
                                  tone, genOK)]

\* app2.py show_summary of the session sid: the session after the request
\* (the handler assigns nothing to it) and the record of the request
show_summary_app2(sess, sid, product_id, tone, genOK) ==
    LET products == sess[sid]
        req == [Request("show_summary", sid, product_id) EXCEPT
                   !.hasResults = products.has, !.results = products.products]
    IN  [session |-> sess,
         last |-> IF ~products.has \/ product_id >= Len(products.products)
                  THEN [req EXCEPT !.outcome = "error", !.status = 200,
                                   !.error = ProductNotFound]
                  ELSE Summarised(req, "app2", products.products[product_id + 1],
                                  tone, genOK)]

\* app2.py GET /summary/<int:product_id>/<tone>; the int converter of the
\* route admits no negative number
App2ShowSummary ==
    /\ app = "app2"
    /\ \E sid \in Sessions, product_id \in 0..(MaxList + 1), tone \in HttpTones,
          genOK \in BOOLEAN :
        /\ session' = show_summary_app2(session, sid, product_id, tone, genOK).session
        /\ last' = show_summary_app2(session, sid, product_id, tone, genOK).last
        /\ UNCHANGED <<running, search, assembled, extracted, shown, paired, app,
                       gr_names_state>>

\* get_products answering with the entries in reverse order
get_products_main_Reversed(r) ==
    LET products == get_data_main(r)
        req == [Request("get_products", "", 0) EXCEPT !.calls = <<"search">>]
        n == Len(products.value)
    IN  IF products.kind = "list"
        THEN [WithResults(req, products.value) EXCEPT
                 !.outcome = "ok", !.status = 200,
                 !.entries = [i \in 1..n |-> basic_info(products.value[n + 1 - i])]]
        ELSE Raised(req)

\* main.py get_products when the search API answers r
get_products_main(r) ==
    LET products == get_data_main(r)
        req == [Request("get_products", "", 0) EXCEPT !.calls = <<"search">>]
    IN  IF products.kind = "list"
        THEN [WithResults(req, products.value) EXCEPT
                 !.outcome = "ok", !.status = 200,
                 !.entries = [i \in 1..Len(products.value) |-> basic_info(products.value[i])]]
        ELSE Raised(req)

\* main.py GET /api/products
MainGetProducts ==
    /\ app = "main"
    /\ \E r \in HandlerResponses("main") :
        /\ last' = get_products_main(r)
        /\ UNCHANGED <<running, search, assembled, extracted, shown, paired, app, session,
                       gr_names_state>>

\* show_summary taking the number of the URL as a position counted from one
show_summary_main_OneBased(r, product_id, tone, genOK) ==
    LET products == get_data_main(r)
        req == [Request("show_summary", "", product_id) EXCEPT !.calls = <<"search">>]
    IN  IF products.kind /= "list"
        THEN Raised(req)
        ELSE IF ~PyIndexValid(products.value, product_id - 1)
        THEN Raised(WithResults(req, products.value))
        ELSE Summarised(WithResults(req, products.value), "main",
                        PyIndex(products.value, product_id - 1), tone, genOK)

\* main.py show_summary when the search API answers r: the search is run
\* again and the list indexed without a check
show_summary_main(r, product_id, tone, genOK) ==
    LET products == get_data_main(r)
        req == [Request("show_summary", "", product_id) EXCEPT !.calls = <<"search">>]
    IN  IF products.kind /= "list"
        THEN Raised(req)
        ELSE IF product_id >= Len(products.value)
        THEN Raised(WithResults(req, products.value))
        ELSE Summarised(WithResults(req, products.value), "main",
                        products.value[product_id + 1], tone, genOK)

\* main.py GET /summary/<int:product_id>/<tone>
MainShowSummary ==
    /\ app = "main"
    /\ \E r \in HandlerResponses("main"), product_id \in 0..(MaxList + 1),
          tone \in HttpTones, genOK \in BOOLEAN :
        /\ last' = show_summary_main(r, product_id, tone, genOK)
        /\ UNCHANGED <<running, search, assembled, extracted, shown, paired, app, session,
                       gr_names_state>>

\* src/main.py product_info_extraction
product_info_extraction(product) ==
    [name |-> Get(product, "product_name", NotMentioned),
     brand |-> Get(product, "brands", NotMentioned),
     image_url |-> Get(product, "image_url", NotMentioned),
     web_url |-> Get(product, "url", NotMentioned)]

\* src/main.py interface: tone = int(input(...)), 1 is simple, else deeper
tone_of_input_Unchecked(n) ==
    IF n = 1 THEN "simple" ELSE IF n = 2 THEN "deeper" ELSE "loud"

tone_of_input(n) == IF n = 1 THEN "simple" ELSE "deeper"

\* src/main.py OpenFoodFacts.interface, the command line: the number typed
\* is used as products[n - 1]
OFFInterface ==
    /\ app = "OFF"
    /\ \E r \in HandlerResponses("OFF"), product_name_sel \in 0..(MaxList + 1),
          tone_input \in 1..3, genOK \in BOOLEAN :
        /\ LET products == get_data_OFF(r)
               req == [Request("interface", "", product_name_sel) EXCEPT !.calls = <<"search">>]
           IN  IF products.kind /= "list"
               THEN last' = Raised(req)
               ELSE LET listed == [WithResults(req, products.value) EXCEPT
                                      !.entries = [i \in 1..Len(products.value) |-> product_info_extraction(products.value[i])]]
                    IN  IF ~PyIndexValid(products.value, product_name_sel - 1)
                        THEN last' = Raised(listed)
                        ELSE last' = Summarised(listed, "OFF",
                                                PyIndex(products.value, product_name_sel - 1),
                                                tone_of_input(tone_input), genOK)
        /\ UNCHANGED <<running, search, assembled, extracted, shown, paired, app, session,
                       gr_names_state>>

\* app3.py GET /api/products
App3GetProducts ==
    /\ app = "app3"
    /\ \E r \in HandlerResponses("app3") :
        /\ LET products == get_data_app3(r)
               req == [Request("get_products", "", 0) EXCEPT !.calls = <<"search">>]
           IN  IF products.kind /= "list"
               THEN last' = Raised(req)
               ELSE IF products.value = <<>>
               THEN last' = [WithResults(req, <<>>) EXCEPT
                                !.outcome = "error", !.status = 404,
                                !.error = "No products found"]
               ELSE last' = [WithResults(req, products.value) EXCEPT
                                !.outcome = "ok", !.status = 200,
                                !.entries = [i \in 1..Len(products.value) |-> product_info_app3(products.value[i])]]
        /\ UNCHANGED <<running, search, assembled, extracted, shown, paired, app, session,
                       gr_names_state>>

\* {} of Python
EmptyDict == <<>>

\* the 'product' values a client posts: an entry of the list of
\* get_products, or an empty object
PostedProducts ==
    {product_info_app3(rec) : rec \in HandlerCatalogue("app3")} \cup {EmptyDict}

\* the JSON object of a request body with the keys 'product' and 'tone'
\* present or not
Body(hasProduct, product, hasTone, tone) ==
    [k \in (IF hasProduct THEN {"product"} ELSE {}) \cup (IF hasTone THEN {"tone"} ELSE {}) |->
        IF k = "product" THEN product ELSE tone]

PostedBodies ==
    {Body(hp, product, ht, tone) :
        hp \in BOOLEAN, product \in PostedProducts, ht \in BOOLEAN,
        tone \in HttpTones \cup {""}}

\* get_summary testing the product alone
get_summary_app3_ToneOptional(data, genOK) ==
    LET product == Get(data, "product", EmptyDict)
        tone == Get(data, "tone", "")
        req == [Request("get_summary", "", 0) EXCEPT !.posted = data]
    IN  IF product = EmptyDict
        THEN [req EXCEPT !.outcome = "error", !.status = 400, !.error = "Invalid data",
                         !.body = "object with error"]
        ELSE [Summarised(req, "app3", product, tone, genOK) EXCEPT
                 !.body = IF genOK THEN "string" ELSE ""]

\* app3.py get_summary on the body data: data.get gives None for a missing
\* key, and None, {} and '' all fail the test `not product or not tone`;
\* the answer is jsonify(summary), the summary text as a JSON string
get_summary_app3(data, genOK) ==
    LET product == Get(data, "product", EmptyDict)
        tone == Get(data, "tone", "")
        req == [Request("get_summary", "", 0) EXCEPT !.posted = data]
    IN  IF product = EmptyDict \/ tone = ""
        THEN [req EXCEPT !.outcome = "error", !.status = 400, !.error = "Invalid data",
                         !.body = "object with error"]
        ELSE [Summarised(req, "app3", product, tone, genOK) EXCEPT
                 !.body = IF genOK THEN "string" ELSE ""]

\* app3.py POST /api/summary
App3GetSummary ==
    /\ app = "app3"
    /\ \E data \in PostedBodies, genOK \in BOOLEAN :
        /\ last' = get_summary_app3(data, genOK)
        /\ UNCHANGED <<running, search, assembled, extracted, shown, paired, app, session,
                       gr_names_state>>

\* f"{p['product_name']} (Brand: {p.get('brands', 'Unknown')})", kept as
\* the two values it is formatted from
Label(p) == [name |-> p["product_name"], brand |-> Get(p, "brands", "Unknown")]

\* gr2.py search_products: the tuple returned, of three values when nothing
\* was found and of two otherwise
search_products(products) ==
    IF products = <<>>
    THEN <<"No products found for the given name.", <<>>, <<>>>>
    ELSE <<[i \in 1..Len(products) |-> Label(products[i])], products>>

\* gr2.py update_dropdown on the Search button:
\* `product_names, products = search_products(product_name)` raises a
\* ValueError when the tuple has not two values
Gr2UpdateDropdown ==
    /\ app = "gr2"
    /\ \E r \in HandlerResponses("gr2") :
        /\ LET products == get_data_gr2(r)
               req == [Request("update_dropdown", "", 0) EXCEPT !.calls = <<"search">>]
           IN  IF products.kind /= "list"
               THEN /\ last' = Raised(req)
                    /\ gr_names_state' = gr_names_state
               ELSE IF Len(search_products(products.value)) /= 2
               THEN /\ last' = Raised(WithResults(req, products.value))
                    /\ gr_names_state' = gr_names_state
               ELSE /\ last' = [WithResults(req, products.value) EXCEPT
                                   !.outcome = "ok", !.status = 200,
                                   !.entries = search_products(products.value)[1]]
                    /\ gr_names_state' = search_products(products.value)[1]
        /\ UNCHANGED <<running, search, assembled, extracted, shown, paired, app, session>>

\* next((p for p in l if chosen in p), None): position of the first label
\* that holds the chosen label, 0 for None.  A label holds another one of
\* this catalogue exactly when they are equal.
FirstHolding(l, chosen) ==
    IF \E i \in 1..Len(l) : l[i] = chosen
    THEN CHOOSE i \in 1..Len(l) : l[i] = chosen /\ \A j \in 1..(i - 1) : l[j] /= chosen
    ELSE 0

\* gr2.py update_product_summary on a change of the dropdown: the state it
\* reads holds the labels, so generate_summary is handed a string and its
\* first product.get raises
Gr2UpdateProductSummary ==
    /\ app = "gr2"
    /\ \E choice \in 0..Len(gr_names_state), tone \in {"simple", "deeper"} :
        /\ LET req == Request("update_product_summary", "", choice)
               product_names == gr_names_state
           IN  IF choice = 0
               THEN last' = [req EXCEPT !.outcome = "error", !.status = 200,
                                        !.error = "No product selected."]
               ELSE LET found == FirstHolding(product_names, product_names[choice])
                    IN  IF found = 0
                        THEN last' = [req EXCEPT !.outcome = "error", !.status = 200,
                                                 !.error = "Selected product not found."]
                        ELSE last' = Raised([req EXCEPT !.called = TRUE, !.tone = tone,
                                                        !.selected = <<product_names[found]>>])
        /\ UNCHANGED <<running, search, assembled, extracted, shown, paired, app, session,
                       gr_names_state>>

\* str.lower() on the options of the tone radio of sl.py
Lower(t) == IF t = "Simple" THEN "simple" ELSE "in-depth"

\* next(p for p in products if label(p) == selected_product_name)
FirstLabelled(products, label) ==
    products[CHOOSE i \in 1..Len(products) :
                 /\ Label(products[i]) = label
                 /\ \A j \in 1..(i - 1) : Label(products[j]) /= label]

\* sl.py main() on a click of Search.  st.radio returns one of the labels;
\* which one is left open here.
SlMain ==
    /\ app = "sl"
    /\ \E r \in HandlerResponses("sl"), tone \in {"Simple", "In-depth"},
          option \in 1..TopN, genOK \in BOOLEAN :
        /\ LET products == get_data_sl(r)
               req == [Request("main", "", option) EXCEPT !.calls = <<"search">>]
           IN  IF products.kind /= "list"
               THEN last' = Raised(req)
               ELSE IF products.value = <<>>
               THEN last' = [WithResults(req, <<>>) EXCEPT
                                !.outcome = "error", !.status = 200,
                                !.error = "No products found for the given name."]
               ELSE /\ option <= Len(products.value)
                    /\ LET product_names == [i \in 1..Len(products.value) |-> Label(products.value[i])]
                           selected_product == FirstLabelled(products.value, product_names[option])
                       IN  last' = Summarised([WithResults(req, products.value) EXCEPT
                                                  !.entries = product_names],
                                              "sl", selected_product, Lower(tone), genOK)
        /\ UNCHANGED <<running, search, assembled, extracted, shown, paired, app, session,
                       gr_names_state>>

\* app.py POST /name: product_info_extraction is handed the list, its
\* product.get raises, and the except clause answers with the text
AppSend ==
    /\ app = "app"
    /\ \E r \in HandlerResponses("app") :
        /\ LET extracted_data == get_data_OFF(r)
               req == [Request("send", "", 0) EXCEPT !.calls = <<"search">>]
           IN  IF extracted_data.kind /= "list"
               THEN last' = [req EXCEPT !.outcome = "error", !.status = 200,
                                        !.error = "An error occurred: search"]
               ELSE last' = [WithResults(req, extracted_data.value) EXCEPT
                                !.outcome = "error", !.status = 200,
                                !.error = "An error occurred: 'list' object has no attribute 'get'"]
        /\ UNCHANGED <<running, search, assembled, extracted, shown, paired, app, session,
                       gr_names_state>>

\* app.py POST /summary: the view takes two parameters the route does not
\* supply, so the call of the view raises a TypeError
AppGetSummary ==
    /\ app = "app"
    /\ last' = Raised(Request("get_summary", "", 0))
    /\ UNCHANGED <<running, search, assembled, extracted, shown, paired, app, session, gr_names_state>>

Next ==
    \/ App2GetProducts
    \/ App2ShowSummary
    \/ MainGetProducts
    \/ MainShowSummary
    \/ OFFInterface
    \/ App3GetProducts
    \/ App3GetSummary
    \/ Gr2UpdateDropdown
    \/ Gr2UpdateProductSummary
    \/ SlMain
    \/ AppSend
    \/ AppGetSummary

Spec == Init /\ [][Next]_vars

-----------------------------------------------------------------------------
(* Properties of the request handlers *)

\* the two tone values of a variant
TwoTones(a) == IF a = "sl" THEN {"simple", "in-depth"} ELSE {"simple", "deeper"}

\* variants whose tone comes from a widget or a menu, and from a request
WidgetVariants == {"OFF", "gr2", "sl"}
HttpVariants   == {"app2", "main", "app3"}

\* C8 as stated: in every variant the tone handed to the prompt assembler is
\* one of exactly two values.
C8_ToneOneOfTwo ==
    last.called => last.tone \in TwoTones(app)

\* C8 amended: in the command-line, Gradio and Streamlit variants the tone
\* handed to the prompt assembler is one of exactly two values; in the HTTP
\* variants any non-empty string of the request reaches the assembler, and
\* the prompt is the simple one when the tone is 'simple' and the deeper one
\* for every other value.
C8_ToneOrTemplateOneOfTwo ==
    last.called =>
        /\ app \in WidgetVariants => last.tone \in TwoTones(app)
        /\ app \in HttpVariants =>
              last.prompt = Assemble(app, last.selected[1],
                                     IF last.tone = "simple" THEN "simple" ELSE "deeper")

C8_Witness ==
    /\ last.called
    /\ app = "app2"
    /\ last.tone = "loud"
    /\ last.prompt = Assemble("app2", last.selected[1], "deeper")

NGenerate(calls) == Cardinality({i \in 1..Len(calls) : calls[i] = "generate"})

\* the request selects by an index that is no position of the result list
InvalidSelection ==
    \/ /\ app = "app2"
       /\ last.op = "show_summary"
       /\ (~last.hasResults \/ last.idx >= Len(last.results))
    \/ /\ app = "main"
       /\ last.op = "show_summary"
       /\ last.hasResults
       /\ last.idx >= Len(last.results)
    \/ /\ app = "OFF"
       /\ last.op = "interface"
       /\ last.hasResults
       /\ last.idx \notin 1..Len(last.results)

\* C9: an invalid selection by index is answered with a plain error value:
\* nothing is raised, no record is selected, no generation call is made, in
\* the session-backed route, the re-fetching route and the command line.
C9_InvalidIndexPlainError ==
    InvalidSelection =>
        /\ last.outcome = "error"
        /\ last.selected = <<>>
        /\ NGenerate(last.calls) = 0

\* C10: a summary request makes at most one call of the generative API; a
\* failed call is not issued again and its exception reaches the caller.
C10_AtMostOneGenerateCall ==
    /\ NGenerate(last.calls) <= 1
    /\ last.gen = "fail" => last.outcome = "raise"
    /\ last.gen /= "none" => NGenerate(last.calls) = 1

C10_Witness ==
    /\ last.gen = "fail"
    /\ last.outcome = "raise"
    /\ NGenerate(last.calls) = 1

\* the record handed to the prompt assembler is one of the list the request
\* worked on
SelectedFromResults ==
    /\ last.hasResults
    /\ last.results /= <<>>
    /\ \E i \in 1..Len(last.results) : last.selected = <<last.results[i]>>

\* C11 as stated: in every variant a call of the generative API is preceded
\* by a search that returned a non-empty list, and the record summarised is
\* a member of that list.
C11_GenerateAfterSearch ==
    last.gen /= "none" => SelectedFromResults

\* C11 amended: in every variant but the JSON API of app3.py a call of the
\* generative API is preceded by a search that returned a non-empty list (in
\* the same request, or, in app2.py, the one whose list the session holds)
\* and the record summarised is a member of that list; POST /api/summary of
\* app3.py runs no search and summarises the record of the request body.
C11_GenerateAfterSearchUnlessPosted ==
    last.gen /= "none" =>
        IF app = "app3"
        THEN last.calls = <<"generate">> /\ ~last.hasResults
        ELSE /\ SelectedFromResults
             /\ app = "app2" =>
                   last.calls = <<"generate">> /\ session[last.sid] = Stored(last.results)
             /\ app /= "app2" => last.calls = <<"search", "generate">>

C11_Witness ==
    /\ app = "app2"
    /\ last.op = "show_summary"
    /\ last.gen = "ok"
    /\ Len(last.results) = 2
    /\ last.selected = <<last.results[2]>>

\* the last request of app2.py failed: its search failed, its selection was
\* invalid or its generation call failed
App2Failed(req) == req.outcome \in {"error", "raise"}

\* C12 as stated: every failure path of app2.py returns an error payload and
\* leaves the session without search results.
C12_FailureResetsSession ==
    (app = "app2" /\ App2Failed(last)) =>
        /\ last.outcome = "error"
        /\ session[last.sid] = NoProducts

\* what each failure path of app2.py answers
App2FailureAnswers ==
    app = "app2" =>
        /\ (last.op = "get_products" /\ ~last.hasResults) => last.outcome = "raise"
        /\ (last.op = "show_summary" /\ ~last.called) =>
              /\ last.outcome = "error"
              /\ last.error = ProductNotFound
              /\ (~last.hasResults \/ last.idx >= Len(last.results))
        /\ last.gen = "fail" => last.outcome = "raise"

\* C12 amended: every failure path of app2.py leaves the session as it was
\* before the request (the list of the last successful search stays stored);
\* an invalid selection is answered with the error payload, a failed search
\* and a failed generation raise out of the handler.
C12_FailureKeepsSession ==
    /\ []App2FailureAnswers
    /\ [][(app = "app2" /\ App2Failed(last')) => session' = session]_vars

C12_Witness ==
    /\ app = "app2"
    /\ last.op = "show_summary"
    /\ last.outcome = "error"
    /\ session[last.sid].has
    /\ session[last.sid].products /= <<>>

\* show_summary worked on the list its own session holds
ReadsOwnSession ==
    (app = "app2" /\ last.op = "show_summary") =>
        /\ last.hasResults = session[last.sid].has
        /\ last.results = session[last.sid].products

\* C13: in app2.py a show_summary request reads only the list stored by a
\* get_products request of its own session, and a get_products request
\* changes the list of no other session.
C13_SessionsIsolated ==
    /\ []ReadsOwnSession
    /\ [][\A s \in Sessions :
             session'[s] /= session[s] => (last'.op = "get_products" /\ last'.sid = s)]_vars

C13_Witness ==
    /\ app = "app2"
    /\ session["s1"].has
    /\ session["s2"].has
    /\ session["s1"] /= session["s2"]
    /\ last.op = "show_summary"
    /\ last.sid = "s2"
    /\ last.called

\* C14 as stated, for the routes of app2.py and main.py: every operation, in
\* every outcome, issues one or two outbound calls, never none and never
\* three or more.
C14_OneOrTwoCalls ==
    (app \in {"app2", "main"} /\ last.op /= "none") => Len(last.calls) \in {1, 2}

\* C14 amended: every operation issues at most two outbound calls, one
\* after the other: at most one search and then at most one generation, the
\* generation only after the search returned its list; an operation that
\* makes no call answers with an error or raises.
C14_AtMostTwoCallsInOrder ==
    /\ last.calls \in {<<>>, <<"search">>, <<"generate">>, <<"search", "generate">>}
    /\ last.calls = <<"search", "generate">> => last.hasResults /\ last.results /= <<>>
    /\ (last.op /= "none" /\ last.calls = <<>>) => last.outcome \in {"error", "raise"}

C14_Witness ==
    /\ app = "main"
    /\ last.op = "show_summary"
    /\ last.calls = <<"search", "generate">>
    /\ last.outcome = "ok"

-----------------------------------------------------------------------------
(* The field reads of a variant applied once to any record: the entry of   *)
(* the list (or the display label) and the prompt                          *)

\* records with at most MaxDeviations keys of the API absent
FieldRecords ==
    {MkRecord(D, {}) : D \in {E \in SUBSET ApiKeys : Cardinality(E) <= MaxDeviations}}

\* src/main.py and app3.py: the locals the assembler reads and does not render
unrendered_locals(product) ==
    [image_url |-> Get(product, "image_url", NotMentioned),
     web_url |-> Get(product, "url", NotMentioned),
     barcode |-> Get(product, "_id", PyNone)]

Extraction(variant, product, entry, handed, tone) ==
    [variant |-> variant, product |-> product, entry |-> entry, handed |-> handed,
     tone |-> tone, prompt |-> Assemble(variant, handed, tone)]

ExtractApp2 ==
    /\ extracted.variant = "none"
    /\ \E product \in FieldRecords, tone \in {"simple", "deeper"} :
        /\ extracted' = Extraction("app2", product, basic_info(product), product, tone)
        /\ UNCHANGED <<running, search, assembled, shown, paired, app, session, gr_names_state, last>>

ExtractMain ==
    /\ extracted.variant = "none"
    /\ \E product \in FieldRecords, tone \in {"simple", "deeper"} :
        /\ extracted' = Extraction("main", product, basic_info(product), product, tone)
        /\ UNCHANGED <<running, search, assembled, shown, paired, app, session, gr_names_state, last>>

\* src/main.py: product_info_extraction for the list, LLM for the prompt
ExtractOFF ==
    /\ extracted.variant = "none"
    /\ \E product \in FieldRecords, tone \in {"simple", "deeper"} :
        /\ extracted' = Extraction("OFF", product,
                                   [list |-> product_info_extraction(product),
                                    locals |-> unrendered_locals(product)],
                                   product, tone)
        /\ UNCHANGED <<running, search, assembled, shown, paired, app, session, gr_names_state, last>>

\* app3.py: get_products builds the entry, the front end posts it back and
\* generate_summary reads it
ExtractApp3 ==
    /\ extracted.variant = "none"
    /\ \E product \in FieldRecords, tone \in {"simple", "deeper"} :
        /\ extracted' = Extraction("app3", product,
                                   [list |-> product_info_app3(product),
                                    locals |-> unrendered_locals(product_info_app3(product))],
                                   product_info_app3(product), tone)
        /\ UNCHANGED <<running, search, assembled, shown, paired, app, session, gr_names_state, last>>

\* gr2.py and sl.py: the label is built for records get_data let through,
\* which hold a name
ExtractGr2 ==
    /\ extracted.variant = "none"
    /\ \E product \in {p \in FieldRecords : "product_name" \in DOMAIN p},
          tone \in {"simple", "deeper"} :
        /\ extracted' = Extraction("gr2", product, Label(product), product, tone)
        /\ UNCHANGED <<running, search, assembled, shown, paired, app, session, gr_names_state, last>>

ExtractSl ==
    /\ extracted.variant = "none"
    /\ \E product \in {p \in FieldRecords : "product_name" \in DOMAIN p},
          tone \in {"simple", "in-depth"} :
        /\ extracted' = Extraction("sl", product, Label(product), product, tone)
        /\ UNCHANGED <<running, search, assembled, shown, paired, app, session, gr_names_state, last>>

NextExtract ==
    \/ ExtractApp2
    \/ ExtractMain
    \/ ExtractOFF
    \/ ExtractApp3
    \/ ExtractGr2
    \/ ExtractSl

SpecExtract == InitPure /\ [][NextExtract]_vars

\* the key of the API record an entry field is read from
EntryKey ==
    [name |-> "product_name", brand |-> "brands", image_url |-> "image_url",
     web_url |-> "url", nutriscore_grade |-> "nutriscore_grade",
     eco_score |-> "ecoscore_grade", packaging |-> "packaging",
     ingredients |-> "ingredients_text", nutrients |-> "nutrients_data",
     barcode |-> "_id", vitamins |-> "vitamins_tags", keywords |-> "_keywords",
     nova |-> "nova_groups_tags"]

\* every field of the entry e read from a key absent from the record p
\* holds the value Default[field]
AbsentRead(e, p, Default) ==
    \A f \in DOMAIN e : EntryKey[f] \notin DOMAIN p => e[f] = Default[f]

\* every piece of the prompt rendered from a key absent from the dict
\* handed to the assembler holds the sentinel
PromptAbsentRead ==
    \A j \in 1..Len(extracted.prompt) :
        (RenderedKey(extracted.prompt[j])
           /\ extracted.prompt[j].kind \notin DOMAIN extracted.handed)
            => extracted.prompt[j].text = NotMentioned

AllSentinel == [f \in DOMAIN EntryKey |-> NotMentioned]

\* the entries a variant builds from the API record
ListEntries ==
    IF extracted.variant \in {"OFF", "app3"} THEN {extracted.entry.list}
    ELSE {extracted.entry}

\* C15 as stated: every field read by the code for the list or the prompt
\* and absent from the record takes the sentinel "Not mentioned".
C15_AbsentReadsSentinel ==
    extracted.variant /= "none" =>
        /\ \A e \in ListEntries : AbsentRead(e, extracted.product, AllSentinel)
        /\ extracted.variant = "OFF" =>
              AbsentRead(extracted.entry.locals, extracted.product, AllSentinel)
        /\ PromptAbsentRead

\* the default each list builder gives an absent key
ListDefault(variant) ==
    CASE variant \in {"app2", "main"} ->
             [AllSentinel EXCEPT !.image_url = "", !.web_url = ""]
      [] variant = "app3" -> [AllSentinel EXCEPT !.barcode = PyNone]
      [] variant \in {"gr2", "sl"} -> [AllSentinel EXCEPT !.brand = "Unknown"]
      [] OTHER -> AllSentinel

\* C15 amended: every field rendered into a prompt, and every field of a
\* list entry but the following, takes the sentinel "Not mentioned" when it
\* is absent: the image and web URL of the list of app2.py and main.py are
\* the empty string, the barcode of app3.py and of the assembler of
\* src/main.py is None, the brand of the labels of gr2.py and sl.py is
\* "Unknown".
C15_AbsentReadsDefault ==
    extracted.variant /= "none" =>
        /\ \A e \in ListEntries :
              AbsentRead(e, extracted.product, ListDefault(extracted.variant))
        /\ extracted.variant = "OFF" =>
              AbsentRead(extracted.entry.locals, extracted.product,
                         [AllSentinel EXCEPT !.barcode = PyNone])
        /\ PromptAbsentRead

C15_Witness ==
    /\ extracted.variant = "app2"
    /\ DOMAIN extracted.product = ApiKeys \ {"product_name", "image_url"}
    /\ extracted.entry.name = NotMentioned
    /\ extracted.entry.image_url = ""
    /\ extracted.tone = "simple"

-----------------------------------------------------------------------------
(* Properties of the lists the handlers answer with *)

BasicFields == {"name", "brand", "image_url", "web_url"}

\* the entry e holds the fields F, each with the value of the record p
\* where p has the key
EntryOf(e, p, F) ==
    /\ DOMAIN e = F
    /\ \A f \in F : EntryKey[f] \in DOMAIN p => e[f] = p[EntryKey[f]]

\* the answer lists one entry with the fields F per record, in order
EntriesInOrder(F) ==
    /\ last.outcome = "ok"
    /\ Len(last.entries) = Len(last.results)
    /\ \A k \in 1..Len(last.results) : EntryOf(last.entries[k], last.results[k], F)

\* get_products of an HTTP variant whose search returned a list
ListedOverHttp ==
    app \in HttpVariants /\ last.op = "get_products" /\ last.hasResults

\* C16 as stated: in every HTTP variant get_products answers a search that
\* returned r1..rn with a list of n entries in the same order, entry k
\* holding exactly the four basic fields of rk.
C16_FourFieldEntries ==
    ListedOverHttp => EntriesInOrder(BasicFields)

\* C16 amended: get_products answers a search that returned r1..rn with a
\* list of n entries in the same order; entry k holds exactly the four
\* basic fields of rk in app2.py and main.py and thirteen fields of rk in
\* app3.py, which answers 404 with an error payload when n = 0.
C16_EntriesInOrder ==
    ListedOverHttp =>
        IF app = "app3"
        THEN IF last.results = <<>>
             THEN last.outcome = "error" /\ last.status = 404 /\ last.entries = <<>>
             ELSE EntriesInOrder(DOMAIN EntryKey)
        ELSE EntriesInOrder(BasicFields)

C16_Witness ==
    /\ app = "main"
    /\ last.op = "get_products"
    /\ last.outcome = "ok"
    /\ Len(last.results) = 2
    /\ last.results[1] /= last.results[2]
    /\ Len(last.entries) = 2

-----------------------------------------------------------------------------
(* Properties of the order of the search result *)

\* the record at position i of the response can be returned by the variant
Eligible(variant, products, i) ==
    variant \in NameFilteringVariants => "product_name" \in DOMAIN products[i]

\* the number of eligible records at the positions 1..i of the response
Rank(variant, products, i) ==
    Cardinality({j \in 1..i : Eligible(variant, products, j)})

\* the positions of the first TopN eligible records of the response
KeptPositions(variant, products) ==
    {i \in 1..Len(products) :
        Eligible(variant, products, i) /\ Rank(variant, products, i) <= TopN}

\* C17: the list get_data returns is the first five records of the response
\* in the order of the response, each position taken once; in the variants
\* that filter on the name it is the first five records that have a name,
\* so a record after position five of the response can be returned.
C17_FirstFiveInApiOrder ==
    (Searched /\ search.outcome.kind = "list") =>
        LET products == search.response.products
            kept == KeptPositions(search.variant, products)
        IN  /\ Len(search.outcome.value) = Cardinality(kept)
            /\ \A i \in kept :
                  search.outcome.value[Rank(search.variant, products, i)] = products[i]

C17_Witness ==
    /\ Searched
    /\ search.variant = "app3"
    /\ search.outcome.kind = "list"
    /\ Len(search.response.products) = 6
    /\ "product_name" \notin DOMAIN search.response.products[2]
    /\ Len(search.outcome.value) = 5
    /\ search.outcome.value[5] = search.response.products[6]
    /\ search.outcome.value[5] /= search.outcome.value[4]

-----------------------------------------------------------------------------
(* app2.py and main.py driven by the same user actions: the query, then    *)
(* the selection of an index with a tone.  The search API answers the      *)
(* query of both get_products with the response `first`; main.py searches  *)
(* again in show_summary and is answered with `second`.                    *)

PairSearch ==
    /\ app = "none"
    /\ paired.stage = "start"
    /\ \E r \in HandlerResponses("app2") :
        /\ session' = get_products_app2(session, "s1", r).session
        /\ paired' = [paired EXCEPT !.stage = "listed", !.first = r,
                                    !.listed2 = get_products_app2(session, "s1", r).last,
                                    !.listedM = get_products_main(r)]
        /\ UNCHANGED <<running, search, assembled, extracted, shown, app, gr_names_state, last>>

PairShowSummary ==
    /\ app = "none"
    /\ paired.stage = "listed"
    /\ \E product_id \in 0..(MaxList + 1), tone \in HttpTones, genOK \in BOOLEAN,
          r \in HandlerResponses("main") :
        /\ paired' = [paired EXCEPT
                         !.stage = "summarised", !.second = r,
                         !.app2 = show_summary_app2(session, "s1", product_id, tone, genOK).last,
                         !.main = show_summary_main(r, product_id, tone, genOK)]
        /\ session' = show_summary_app2(session, "s1", product_id, tone, genOK).session
        /\ UNCHANGED <<running, search, assembled, extracted, shown, app, gr_names_state, last>>

NextPair ==
    \/ PairSearch
    \/ PairShowSummary

SpecPair == InitPure /\ [][NextPair]_vars

\* both variants displayed the same list and the index selected is a
\* position of it
SelectedFromSameList ==
    /\ paired.stage = "summarised"
    /\ paired.listed2.outcome = "ok"
    /\ paired.listedM.outcome = "ok"
    /\ paired.listed2.results = paired.listedM.results
    /\ paired.app2.idx < Len(paired.listed2.results)

\* the record displayed at the position selected
RecordShown == <<paired.listed2.results[paired.app2.idx + 1]>>

\* C18 as stated: for the same query, index and tone app2.py and main.py
\* summarise the same record, the one shown at the index selected, however
\* the search API answers, two different answers to the same query included.
C18_SameRecordSummarised ==
    SelectedFromSameList =>
        /\ paired.app2.selected = RecordShown
        /\ paired.main.selected = RecordShown

\* C18 amended: app2.py summarises the record shown at the index selected;
\* main.py summarises the record at that index of the list of its second
\* search, or raises when that list has no such position, so both summarise
\* the same record when the search API answers the second search as the
\* first.
C18_SameRecordWhenSameAnswer ==
    SelectedFromSameList =>
        /\ paired.app2.selected = RecordShown
        /\ paired.main.called =>
              paired.main.selected = <<paired.main.results[paired.main.idx + 1]>>
        /\ ~paired.main.called => paired.main.outcome = "raise"
        /\ paired.second = paired.first => paired.main.selected = RecordShown

C18_Witness ==
    /\ SelectedFromSameList
    /\ paired.second = paired.first
    /\ paired.app2.idx = 1
    /\ paired.app2.gen = "ok"
    /\ paired.main.gen = "ok"
    /\ paired.main.selected = paired.app2.selected
    /\ paired.listed2.results[1] /= paired.listed2.results[2]

-----------------------------------------------------------------------------
(* app2.py used from two browser tabs that share the cookie of session     *)
(* "s1": a tab displays the list its own search request was answered with  *)
(* and selects an index of the list it displays                            *)

TabGetProducts ==
    /\ app = "none"
    /\ \E tab \in Tabs, r \in HandlerResponses("app2") :
        /\ session' = get_products_app2(session, "s1", r).session
        /\ last' = get_products_app2(session, "s1", r).last
        /\ shown' = [view |-> IF last'.outcome = "ok"
                              THEN [shown.view EXCEPT ![tab] = Stored(last'.results)]
                              ELSE shown.view,
                     tab |-> tab]
        /\ UNCHANGED <<running, search, assembled, extracted, paired, app, gr_names_state>>

TabShowSummary ==
    /\ app = "none"
    /\ \E tab \in Tabs, tone \in HttpTones, genOK \in BOOLEAN :
        \E product_id \in 0..(Len(shown.view[tab].products) - 1) :
            /\ session' = show_summary_app2(session, "s1", product_id, tone, genOK).session
            /\ last' = show_summary_app2(session, "s1", product_id, tone, genOK).last
            /\ shown' = [shown EXCEPT !.tab = tab]
            /\ UNCHANGED <<running, search, assembled, extracted, paired, app, gr_names_state>>

NextTabs ==
    \/ TabGetProducts
    \/ TabShowSummary

SpecTabs == InitPure /\ [][NextTabs]_vars

\* the record the tab of the last request displays at the index it selected
RecordSeen == <<shown.view[shown.tab].products[last.idx + 1]>>

\* C19 as stated: under any interleaving of the requests of one session,
\* show_summary(i) summarises the record the user saw at position i of the
\* list the selection was made from.
C19_SummarisesRecordSeen ==
    last.op = "show_summary" => (last.called /\ last.selected = RecordSeen)

\* show_summary(i) answers from the list the session holds
SummarisesRecordStored ==
    last.op = "show_summary" =>
        /\ IF last.idx < Len(session["s1"].products)
           THEN last.called /\ last.selected = <<session["s1"].products[last.idx + 1]>>
           ELSE last.outcome = "error"
        /\ shown.view[shown.tab] = session["s1"] => last.selected = RecordSeen

\* C19 amended: under any interleaving of the requests of one session,
\* show_summary(i) summarises the record at position i of the list stored
\* by the latest successful get_products of the session (or answers with
\* the error payload when that list has no position i); this is the record
\* the user saw when the tab displays that list, and another record or none
\* when a later get_products of the session stored another list.
C19_SummarisesRecordStored ==
    /\ []SummarisesRecordStored
    /\ [][session'["s1"] /= session["s1"] =>
             /\ last'.op = "get_products"
             /\ last'.outcome = "ok"
             /\ session'["s1"] = Stored(last'.results)]_vars

C19_Witness ==
    /\ last.op = "show_summary"
    /\ shown.view[shown.tab] /= session["s1"]
    /\ last.called
    /\ last.selected /= RecordSeen
    /\ last.selected = <<session["s1"].products[last.idx + 1]>>

\* C20: show_summary of app2.py leaves the session as it is in every
\* outcome (error payload, summary, failed generation); a step that changes
\* the session is a get_products request.
C20_ShowSummaryKeepsSession ==
    /\ [][(app = "app2" /\ last'.op = "show_summary") => session' = session]_vars
    /\ [][session' /= session => last'.op = "get_products"]_vars

C20_Witness ==
    /\ app = "app2"
    /\ last.op = "show_summary"
    /\ last.gen = "fail"
    /\ session[last.sid] = Stored(last.results)

-----------------------------------------------------------------------------
(* The operations step by step: a request runs from one blocking point to  *)
(* the next (the search call, the generation call, a line typed at the     *)
(* terminal), and the requests of two clients interleave                   *)

\* the session cookie of a client
SessionOf(c) == IF c = "c1" THEN "s1" ELSE "s2"

\* the user-facing operations of a program
Ops(a) ==
    CASE a \in {"app2", "main"} -> {"get_products", "show_summary"}
      [] a = "OFF"  -> {"interface"}
      [] a = "app3" -> {"get_products", "get_summary"}
      [] a = "gr2"  -> {"update_dropdown", "update_product_summary"}
      [] a = "sl"   -> {"main"}
      [] a = "app"  -> {"send", "get_summary"}
      [] OTHER -> {}

\* the operations that start with a call of get_data
Searches(a, op) ==
    \/ op \in {"get_products", "interface", "update_dropdown", "main", "send"}
    \/ a = "main" /\ op = "show_summary"

\* get_data of the program a (app.py uses the class of src/main.py)
get_data_of(a, r) ==
    CASE a = "app2" -> get_data_app2(r)
      [] a = "main" -> get_data_main(r)
      [] a = "app3" -> get_data_app3(r)
      [] a = "gr2"  -> get_data_gr2(r)
      [] a = "sl"   -> get_data_sl(r)
      [] OTHER      -> get_data_OFF(r)

\* the answers of the search API in the step model: lists of one record
StepResponses == ResponsesOver(ListsUpTo({RecFull}, MaxList))

Done(outcome) == [at |-> "done", outcome |-> outcome]
Goes(at)      == [at |-> at, outcome |-> "none"]

\* get_data answered by searching again when the search failed
after_search_Retry(a, op, g, idx) ==
    IF g.kind /= "list" THEN Goes("start")
    ELSE IF op = "show_summary" /\ idx >= Len(g.value) THEN Done("raise")
    ELSE IF op \in {"show_summary", "main"} THEN Goes("generate_sent")
    ELSE IF op = "interface" THEN Goes("await_sel")
    ELSE Done("ok")

\* where the handler goes once get_data returned g (or raised)
after_search(a, op, g, idx) ==
    CASE op = "get_products" /\ a \in {"app2", "main"} ->
             IF g.kind = "list" THEN Done("ok") ELSE Done("raise")
      [] op = "get_products" /\ a = "app3" ->
             IF g.kind /= "list" THEN Done("raise")
             ELSE IF g.value = <<>> THEN Done("error") ELSE Done("ok")
      [] op = "show_summary" ->
             IF g.kind = "list" /\ idx < Len(g.value)
             THEN Goes("generate_sent") ELSE Done("raise")
      [] op = "interface" ->
             IF g.kind = "list" THEN Goes("await_sel") ELSE Done("raise")
      [] op = "update_dropdown" ->
             IF g.kind = "list" /\ g.value /= <<>> THEN Done("ok") ELSE Done("raise")
      [] op = "main" ->
             IF g.kind /= "list" THEN Done("raise")
             ELSE IF g.value = <<>> THEN Done("error") ELSE Goes("generate_sent")
      [] op = "send" -> Done("error")

\* where an operation that runs no search goes from its start: products is
\* the value of the session, valid whether the body holds product and tone
check_request(a, op, products, idx, valid) ==
    CASE a = "app2" /\ op = "show_summary" ->
             IF ~products.has \/ idx >= Len(products.products)
             THEN Done("error") ELSE Goes("generate_sent")
      [] a = "app3" /\ op = "get_summary" ->
             IF valid THEN Goes("generate_sent") ELSE Done("error")
      [] a = "gr2" /\ op = "update_product_summary" ->
             IF idx = 0 THEN Done("error") ELSE Done("raise")
      [] a = "app" /\ op = "get_summary" -> Done("raise")

InProgress(c) == running[c].at \notin {"idle", "done"}

\* the client sends a request (or starts the script)
Begin(c) ==
    /\ ~InProgress(c)
    /\ \E op \in Ops(app), idx \in 0..(MaxList + 1) :
        running' = [running EXCEPT ![c] = [Idle EXCEPT !.op = op, !.at = "start", !.idx = idx]]
    /\ UNCHANGED <<search, assembled, extracted, app, session, gr_names_state, last, shown,
                   paired>>

\* requests.get is called
CallSearch(c) ==
    /\ running[c].at = "start"
    /\ Searches(app, running[c].op)
    /\ running' = [running EXCEPT ![c].at = "search_sent", ![c].calls = <<"search">>]
    /\ UNCHANGED <<search, assembled, extracted, app, session, gr_names_state, last, shown,
                   paired>>

\* the search call returns or fails and the handler runs on to its answer
\* or to its next call
SearchReturns(c) ==
    /\ running[c].at = "search_sent"
    /\ \E r \in StepResponses :
        LET g == get_data_of(app, r)
            nx == after_search(app, running[c].op, g, running[c].idx)
        IN  /\ running' = [running EXCEPT
                              ![c].at = nx.at, ![c].outcome = nx.outcome,
                              ![c].found = IF g.kind = "list" THEN Len(g.value) ELSE 0,
                              ![c].calls = IF nx.at = "generate_sent"
                                           THEN Append(@, "generate") ELSE @]
            /\ session' = IF app = "app2" /\ g.kind = "list"
                          THEN [session EXCEPT ![SessionOf(c)] = Stored(g.value)]
                          ELSE session
            /\ gr_names_state' = IF app = "gr2" /\ nx.outcome = "ok"
                                 THEN [i \in 1..Len(g.value) |-> Label(g.value[i])]
                                 ELSE gr_names_state
    /\ UNCHANGED <<search, assembled, extracted, app, last, shown, paired>>

\* an operation without a search checks its request and answers or calls
\* the generative API
CheckRequest(c) ==
    /\ running[c].at = "start"
    /\ ~Searches(app, running[c].op)
    /\ \E valid \in BOOLEAN :
        LET nx == check_request(app, running[c].op, session[SessionOf(c)],
                                running[c].idx, valid)
        IN  running' = [running EXCEPT
                           ![c].at = nx.at, ![c].outcome = nx.outcome,
                           ![c].calls = IF nx.at = "generate_sent"
                                        THEN Append(@, "generate") ELSE @]
    /\ UNCHANGED <<search, assembled, extracted, app, session, gr_names_state, last, shown,
                   paired>>

\* src/main.py interface: input() yields the product number, or a line that
\* is no number, or the end of the input; products[n - 1] raises when the
\* list has no such position
ReadSelection(c) ==
    /\ running[c].at = "await_sel"
    /\ \E isNumber \in BOOLEAN, sel \in 0..(MaxList + 1) :
        LET n == running[c].found
            indexed == isNumber /\ -n <= sel - 1 /\ sel - 1 < n
        IN  running' = [running EXCEPT
                           ![c].idx = sel,
                           ![c].at = IF indexed THEN "await_tone" ELSE "done",
                           ![c].outcome = IF indexed THEN "none" ELSE "raise"]
    /\ UNCHANGED <<search, assembled, extracted, app, session, gr_names_state, last, shown,
                   paired>>

\* src/main.py interface: input() yields the tone number, then LLM is called
ReadTone(c) ==
    /\ running[c].at = "await_tone"
    /\ \E isNumber \in BOOLEAN :
        running' = [running EXCEPT
                       ![c].at = IF isNumber THEN "generate_sent" ELSE "done",
                       ![c].outcome = IF isNumber THEN "none" ELSE "raise",
                       ![c].calls = IF isNumber THEN Append(@, "generate") ELSE @]
    /\ UNCHANGED <<search, assembled, extracted, app, session, gr_names_state, last, shown,
                   paired>>

\* generate_content returns or raises
GenerateReturns(c) ==
    /\ running[c].at = "generate_sent"
    /\ \E genOK \in BOOLEAN :
        running' = [running EXCEPT
                       ![c].at = "done",
                       ![c].outcome = IF generate_content(genOK).ok THEN "ok" ELSE "raise"]
    /\ UNCHANGED <<search, assembled, extracted, app, session, gr_names_state, last, shown,
                   paired>>

\* the next step of the operation of client c
StepOf(c) ==
    \/ CallSearch(c)
    \/ SearchReturns(c)
    \/ CheckRequest(c)
    \/ ReadSelection(c)
    \/ ReadTone(c)
    \/ GenerateReturns(c)

NextSteps ==
    \/ \E c \in Clients : Begin(c)
    \/ \E c \in Clients : CallSearch(c)
    \/ \E c \in Clients : SearchReturns(c)
    \/ \E c \in Clients : CheckRequest(c)
    \/ \E c \in Clients : ReadSelection(c)
    \/ \E c \in Clients : ReadTone(c)
    \/ \E c \in Clients : GenerateReturns(c)

\* every outbound call returns or fails, the handler code runs, and the
\* terminal yields a line or the end of the input
FairSteps ==
    \A c \in Clients :
        /\ WF_vars(CallSearch(c))
        /\ WF_vars(SearchReturns(c))
        /\ WF_vars(CheckRequest(c))
        /\ WF_vars(ReadSelection(c))
        /\ WF_vars(ReadTone(c))
        /\ WF_vars(GenerateReturns(c))

SpecSteps == Init /\ [][NextSteps]_vars /\ FairSteps

\* the order of the blocking points of an operation
StepRank(at) ==
    CASE at = "start" -> 1
      [] at = "search_sent" -> 2
      [] at = "await_sel" -> 3
      [] at = "await_tone" -> 4
      [] at = "generate_sent" -> 5
      [] at = "done" -> 6
      [] OTHER -> 0

-----------------------------------------------------------------------------
(* Properties of single handlers *)

\* C22: show_summary of app2.py calls the generative API only when the
\* session holds a list and 0 <= product_id < its length, and then for the
\* record at that index; in every other case it answers with the error
\* payload "Product not found or invalid product ID."; no IndexError is
\* raised, whatever get_products stored.
C22_GenerateOnlyOnValidIndex ==
    /\ \A s \in Sessions : Len(session[s].products) <= TopN
    /\ (app = "app2" /\ last.op = "show_summary") =>
          /\ IF last.hasResults /\ 0 <= last.idx /\ last.idx < Len(last.results)
             THEN /\ last.called
                  /\ NGenerate(last.calls) = 1
                  /\ last.selected = <<last.results[last.idx + 1]>>
             ELSE /\ ~last.called
                  /\ NGenerate(last.calls) = 0
                  /\ last.outcome = "error"
                  /\ last.error = ProductNotFound
          /\ last.outcome = "raise" => last.gen = "fail"

C22_Witness ==
    /\ app = "app2"
    /\ last.op = "show_summary"
    /\ last.hasResults
    /\ last.results /= <<>>
    /\ last.idx = Len(last.results)
    /\ last.error = ProductNotFound

-----------------------------------------------------------------------------
(* Properties of the branch on the tone *)

\* C23: in the variants that branch on tone the prompt is the simple one
\* exactly when the tone is the string 'simple'; for every other value
\* ('Simple', the empty string, any text) it is the deeper one, so a prompt
\* is produced for every tone.
C23_SimpleOnlyForExactTone ==
    \A i \in 1..Len(assembled) :
        LET e == assembled[i]
            simple == Assemble(e.variant, e.product, "simple")
            deeper == Assemble(e.variant, e.product, "deeper")
        IN  e.variant \in ToneBranchingVariants =>
                /\ simple /= deeper
                /\ e.prompt /= <<>>
                /\ e.tone = "simple" => e.prompt = simple
                /\ e.tone /= "simple" => e.prompt = deeper

C23_Witness ==
    /\ assembled /= <<>>
    /\ assembled[1].variant = "main"
    /\ assembled[1].tone = "Simple"
    /\ assembled[1].prompt = Assemble("main", assembled[1].product, "deeper")
    /\ assembled[1].prompt /= Assemble("main", assembled[1].product, "simple")

\* the field of the entry of app3.py get_products that carries the value of
\* the key the prompt assembler reads
FieldOfKey ==
    [k \in {"name", "brands", "ecoscore_grade", "nutriscore_grade", "packaging",
            "ingredients", "nutrients_data", "vitamins_tags", "_keywords",
            "nova_groups_tags"} |->
        CASE k = "brands" -> "brand"
          [] k = "ecoscore_grade" -> "eco_score"
          [] k = "nutrients_data" -> "nutrients"
          [] k = "vitamins_tags" -> "vitamins"
          [] k = "_keywords" -> "keywords"
          [] k = "nova_groups_tags" -> "nova"
          [] OTHER -> k]

\* C24: an entry of GET /api/products of app3.py posted back unchanged to
\* POST /api/summary has every value it carries and the template uses in
\* the prompt; none is replaced by "Not mentioned".
C24_RoundTripKeepsFields ==
    (app = "app3" /\ last.op = "get_summary" /\ last.called) =>
        \A j \in 1..Len(last.prompt) :
            RenderedKey(last.prompt[j]) =>
                LET carried == last.selected[1][FieldOfKey[last.prompt[j].kind]]
                IN  carried /= NotMentioned => last.prompt[j].text = carried

\* the body of the request lacks the product or the tone, or holds an empty
\* one
InvalidData ==
    \/ "product" \notin DOMAIN last.posted
    \/ "tone" \notin DOMAIN last.posted
    \/ last.posted["product"] = EmptyDict
    \/ last.posted["tone"] = ""

\* POST /api/summary answers 400 "Invalid data" without a generation call
Rejected400 ==
    /\ last.status = 400
    /\ last.error = "Invalid data"
    /\ last.body = "object with error"
    /\ NGenerate(last.calls) = 0

C26_EmptySearchCompletes ==
    (app = "gr2" /\ last.op = "update_dropdown" /\ last.hasResults /\ last.results = <<>>) =>
        /\ last.outcome = "ok"
        /\ last.entries = <<>>
        /\ gr_names_state = <<>>

\* C27: in gr2.py, choosing an entry of the dropdown after a search that
\* returned products hands generate_summary the product record the entry
\* was made from, and the summary is returned.
C27_RecordHandedToSummary ==
    (app = "gr2" /\ last.op = "update_product_summary" /\ last.idx >= 1) =>
        /\ last.called
        /\ last.selected[1] \in HandlerCatalogue("gr2")
        /\ Label(last.selected[1]) = gr_names_state[last.idx]
        /\ last.gen /= "none"

\* C28: in sl.py choosing the i-th radio option makes products[i] the
\* record summarised, for every list and every position, also when two
\* records of the list have the same name and the same brand.
C28_OptionReachesItsRecord ==
    (app = "sl" /\ last.op = "main" /\ last.called) =>
        last.selected = <<last.results[last.idx]>>

\* C29: POST /name of app.py, for a search that returns n >= 1 records,
\* renders the products page with the basic fields of those records; the
\* text "An error occurred: ..." is answered only when the search call
\* fails, and no exception leaves send.
C29_SendRendersProducts ==
    (app = "app" /\ last.op = "send") =>
        /\ last.outcome /= "raise"
        /\ (last.hasResults /\ Len(last.results) >= 1) =>
              /\ last.outcome = "ok"
              /\ last.entries = [i \in 1..Len(last.results) |-> product_info_extraction(last.results[i])]
        /\ last.outcome = "error" => ~last.hasResults

====
